---- MODULE Spec2Model ----
(***************************************************************************)
(* Model of the ICIJ graph retriever (src/graph_retriever.py) and of the   *)
(* CSV loader it uses (src/load_real_icij_data.py).                        *)
(*                                                                         *)
(* Python dicts are ordered maps: a dict keyed by node id is a sequence of *)
(* records with pairwise different ids, in insertion order.  A dict of     *)
(* attributes (node data, metadata) is a function from key to value.       *)
(* A page_content string is the sequence of the pieces the f-strings       *)
(* append, in order; a "; ".join(...) string is the sequence of its items. *)
(***************************************************************************)
EXTENDS Integers, Sequences, FiniteSets, TLC

VARIABLES entities, officers, addresses, relationships, graph,
          document_store, documents, ret, loads, rerun, calls

vars == <<entities, officers, addresses, relationships, graph,
          document_store, documents, ret, loads, rerun, calls>>

(***************************************************************************)
(* Bounds of the model.                                                    *)
(***************************************************************************)
MaxLoads == 2
MaxK == 2
MaxDocsArg == 2
MaxLimit == 2
NumCallers == 2
NumBulkSources == 101

(***************************************************************************)
(* Program constants.                                                      *)
(***************************************************************************)
DefaultEntityLimit == 5000
DefaultOfficerLimit == 3000
DefaultAddressLimit == 2000
DefaultRelationshipLimit == 10000
DefaultMaxDocs == 5000
InvestigationCap == 100
OverfetchFactor == 2
NeighborCap == 5
OfficerListCap == 5
AddressListCap == 3
EntityListCap == 5
JurisdictionCap == 5

(***************************************************************************)
(* Generic helpers for sequences and attribute dicts.                      *)
(***************************************************************************)
Min(a, b) == IF a <= b THEN a ELSE b

Take(s, n) == SubSeq(s, 1, Min(n, Len(s)))

\* d.get(k, default)
Get(d, k, default) == IF k \in DOMAIN d THEN d[k] ELSE default

\* dict.update: the keys of new win, the other keys of old stay
Merge(old, new) ==
    [k \in (DOMAIN old) \cup (DOMAIN new) |->
        IF k \in DOMAIN new THEN new[k] ELSE old[k]]

\* x or default, for strings
OrDefault(x, default) == IF x = "" THEN default ELSE x

(***************************************************************************)
(* The data directory: the four CSV files.  A file is there or not; its    *)
(* header names its columns; rows are the rows csv.DictReader yields, a    *)
(* row shorter than the header being a row without its last columns        *)
(* (DictReader reads None there); broken says that the reader raises       *)
(* when asked for the row after the last of rows (undecodable bytes, a     *)
(* NUL character).                                                         *)
(***************************************************************************)
EntityColumns ==
    {"node_id", "name", "jurisdiction", "company_type", "address",
     "incorporation_date", "status", "countries", "sourceID"}

OfficerColumns == {"node_id", "name", "countries", "sourceID"}

AddressColumns == {"node_id", "address", "countries", "sourceID"}

RelationshipColumns ==
    {"node_id_start", "node_id_end", "rel_type", "link", "status", "sourceID"}

CsvFile(fieldnames, rows) ==
    [exists |-> TRUE, fieldnames |-> fieldnames, rows |-> rows, broken |-> FALSE]

MissingFile ==
    [exists |-> FALSE, fieldnames |-> {}, rows |-> <<>>, broken |-> FALSE]

BrokenFile(file) == [file EXCEPT !.broken = TRUE]

EntityRow(id, name, jur, ctype, status, src) ==
    [node_id |-> id, name |-> name, jurisdiction |-> jur,
     company_type |-> ctype, address |-> "", incorporation_date |-> "",
     status |-> status, countries |-> "", sourceID |-> src]

OfficerRow(id, name, countries, src) ==
    [node_id |-> id, name |-> name, countries |-> countries, sourceID |-> src]

AddressRow(id, addr, countries, src) ==
    [node_id |-> id, address |-> addr, countries |-> countries, sourceID |-> src]

RelRow(s, e, t) ==
    [node_id_start |-> s, node_id_end |-> e, rel_type |-> t,
     link |-> "", status |-> "", sourceID |-> ""]

RowE1 == EntityRow("N1", "Alpha Ltd", "BVI", "Company", "Active", "Panama Papers")
RowO3 == OfficerRow("N3", "Jane Doe", "Samoa", "Panama Papers")

DataDir(ents, offs, addrs, rels) ==
    [entities |-> CsvFile(EntityColumns, ents),
     officers |-> CsvFile(OfficerColumns, offs),
     addresses |-> CsvFile(AddressColumns, addrs),
     relationships |-> CsvFile(RelationshipColumns, rels)]

\* a regular dataset with one relationship to a node id that is in no file
DirRegular ==
    DataDir(<<RowE1, EntityRow("N2", "", "", "", "", "")>>, <<RowO3>>,
            <<AddressRow("N4", "1 Main St", "Samoa", "Panama Papers")>>,
            << RelRow("N1", "N3", "director"), RelRow("N1", "N4", ""),
               RelRow("N3", "N1", "officer_of"),
               RelRow("N1", "N9", "officer_of") >>)

\* node id N1 is in the entity file and in the officer file; two rows
\* relate the same pair; N2 is in no file of this directory
DirShared ==
    DataDir(<<RowE1>>, <<RowO3, OfficerRow("N1", "John Roe", "", "")>>, <<>>,
            << RelRow("N3", "N1", ""), RelRow("N3", "N1", "shareholder_of"),
               RelRow("N2", "N2", "same_as") >>)

\* no entity file (or an empty one)
DirOfficersOnly ==
    DataDir(<<>>, <<RowO3>>, <<>>, << RelRow("N3", "N1", "officer_of") >>)

DataDirs == {DirRegular, DirShared, DirOfficersOnly}

LimitArgs ==
    { [entity |-> DefaultEntityLimit, officer |-> DefaultOfficerLimit,
       address |-> DefaultAddressLimit,
       relationship |-> DefaultRelationshipLimit],
      [entity |-> 1, officer |-> 1, address |-> 1, relationship |-> 2] }

(***************************************************************************)
(* RealICIJDataLoader                                                      *)
(***************************************************************************)
\* limit: int = None, written as a number that is no row count
None == -1

\* for row in reader: if limit and count >= limit: break
RowsRead(rows, limit) ==
    IF limit # None /\ limit # 0 THEN Take(rows, limit) ELSE rows

\* row[col] or default, for a column of the header: the row has a string
\* there, or None when it is shorter than the header
RowOr(row, col, default) ==
    IF col \in DOMAIN row THEN OrDefault(row[col], default) ELSE default

EntityOfRow(row) ==
    [entity_id |-> row.node_id,
     name |-> RowOr(row, "name", "Unknown Entity"),
     jurisdiction |-> RowOr(row, "jurisdiction", "Unknown"),
     company_type |-> RowOr(row, "company_type", "Unknown"),
     address |-> RowOr(row, "address", ""),
     incorporation_date |-> RowOr(row, "incorporation_date", ""),
     status |-> RowOr(row, "status", "Unknown"),
     countries |-> RowOr(row, "countries", ""),
     source |-> RowOr(row, "sourceID", "Unknown")]

OfficerOfRow(row) ==
    [officer_id |-> row.node_id,
     name |-> RowOr(row, "name", "Unknown Person"),
     countries |-> RowOr(row, "countries", "Unknown"),
     source |-> RowOr(row, "sourceID", "Unknown")]

AddressOfRow(row) ==
    [address_id |-> row.node_id,
     address |-> RowOr(row, "address", "Unknown Address"),
     countries |-> RowOr(row, "countries", "Unknown"),
     source |-> RowOr(row, "sourceID", "Unknown")]

RelationshipOfRow(row) ==
    [start_node |-> row.node_id_start,
     end_node |-> row.node_id_end,
     rel_type |-> RowOr(row, "rel_type", "connected_to"),
     link |-> RowOr(row, "link", ""),
     status |-> RowOr(row, "status", ""),
     source |-> RowOr(row, "sourceID", "Unknown")]

\* the dict a loop of d[rec[keyField]] = rec over recs leaves: a key keeps the
\* position of its first record and the value of its last one
DictOf(recs, keyField) ==
    LET IsFirst(i) == \A j \in 1..(i - 1) : recs[j][keyField] # recs[i][keyField]
        first == SelectSeq([i \in 1..Len(recs) |-> i], IsFirst)
        Last(key) == CHOOSE i \in 1..Len(recs) :
                        /\ recs[i][keyField] = key
                        /\ \A j \in (i + 1)..Len(recs) : recs[j][keyField] # key
    IN [k \in 1..Len(first) |-> recs[Last(recs[first[k]][keyField])]]

\* open() raises on a file that is not there
OpenRaises(file) == ~file.exists

\* the reader raises when the loop asks for the row after the last of a
\* broken file; the loop does not ask once it has stopped at its limit
ReaderRaises(file, limit) ==
    /\ file.broken
    /\ ~(limit # None /\ limit # 0 /\ Len(file.rows) > limit)

\* row[col] raises KeyError on the first row when the header lacks col
RowRaises(file, required, limit) ==
    /\ RowsRead(file.rows, limit) # <<>>
    /\ ~(required \subseteq file.fieldnames)

\* whether the try block of a loader raises
ReadRaises(file, required, limit) ==
    \/ OpenRaises(file)
    \/ RowRaises(file, required, limit)
    \/ ReaderRaises(file, limit)

\* the try block of a loader: whether it raised, and the collection it
\* had built by then (loaded is the collection of the rows read)
Attempt(file, required, limit, loaded) ==
    [raised |-> ReadRaises(file, required, limit),
     value |-> IF OpenRaises(file) \/ RowRaises(file, required, limit)
               THEN <<>> ELSE loaded]

\* except Exception: return the collection built so far
OnExceptionPartial(out) == [out EXCEPT !.raised = FALSE]

\* except Exception: return {} (return [] for relationships)
OnException(out) ==
    IF out.raised THEN [raised |-> FALSE, value |-> <<>>] ELSE out

load_entities(file, limit) ==
    LET read == RowsRead(file.rows, limit)
    IN OnException(Attempt(file, EntityColumns, limit,
          DictOf([i \in 1..Len(read) |-> EntityOfRow(read[i])], "entity_id")))

load_officers(file, limit) ==
    LET read == RowsRead(file.rows, limit)
    IN OnException(Attempt(file, OfficerColumns, limit,
          DictOf([i \in 1..Len(read) |-> OfficerOfRow(read[i])], "officer_id")))

load_addresses(file, limit) ==
    LET read == RowsRead(file.rows, limit)
    IN OnException(Attempt(file, AddressColumns, limit,
          DictOf([i \in 1..Len(read) |-> AddressOfRow(read[i])], "address_id")))

load_relationships(file, limit) ==
    LET read == RowsRead(file.rows, limit)
    IN OnException(Attempt(file, RelationshipColumns, limit,
          [i \in 1..Len(read) |-> RelationshipOfRow(read[i])]))

\* load_all_data: the four loaders in turn; an exception of one of them
\* would end it there
load_all_data(dir, lim) ==
    LET ents == load_entities(dir.entities, lim.entity)
        offs == load_officers(dir.officers, lim.officer)
        addrs == load_addresses(dir.addresses, lim.address)
        rels == load_relationships(dir.relationships, lim.relationship)
    IN [entities |-> ents.value, officers |-> offs.value,
        addresses |-> addrs.value, relationships |-> rels.value,
        raised |-> ents.raised \/ offs.raised \/ addrs.raised \/ rels.raised]

(***************************************************************************)
(* The graph: nx.MultiDiGraph.  nodes maps a node id to its attribute      *)
(* dict; edges is the list of edges in insertion order (parallel edges     *)
(* are repeated entries).                                                  *)
(***************************************************************************)
EmptyGraph == [nodes |-> <<>>, edges |-> <<>>]

has_node(g, n) == n \in DOMAIN g.nodes

number_of_nodes(g) == Cardinality(DOMAIN g.nodes)

number_of_edges(g) == Len(g.edges)

\* add_node(n, **attrs): a new node gets attrs, an existing one is updated
add_node(g, n, attrs) ==
    IF n \in DOMAIN g.nodes
    THEN [g EXCEPT !.nodes[n] = Merge(@, attrs)]
    ELSE [g EXCEPT !.nodes = (n :> attrs) @@ @]

\* add_edge(u, v, **attrs) of a multigraph: always one more edge
Edge(u, v, attrs) == [u |-> u, v |-> v, data |-> attrs]

\* the targets of the edges out of n, one entry per edge
SuccessorsPerEdge(edges, n) ==
    LET IsOut(i) == edges[i].u = n
        out == SelectSeq([i \in 1..Len(edges) |-> i], IsOut)
    IN [k \in 1..Len(out) |-> edges[out[k]].v]

\* neighbors(n): the successors of n, each once, in the order in which the
\* first edge to each was inserted
Successors(edges, n) ==
    LET IsFirstTo(i) ==
            /\ edges[i].u = n
            /\ \A j \in 1..(i - 1) :
                  ~(edges[j].u = n /\ edges[j].v = edges[i].v)
        first == SelectSeq([i \in 1..Len(edges) |-> i], IsFirstTo)
    IN [k \in 1..Len(first) |-> edges[first[k]].v]

neighbors(g, n) == Successors(g.edges, n)

\* get_edge_data(u, v): the attribute dicts of the edges u -> v, by key
\* the parallel edges from u to v, the last one inserted first
EdgeDataLastFirst(g, u, v) ==
    LET IsUV(e) == e.u = u /\ e.v = v
        uv == SelectSeq(g.edges, IsUV)
    IN [i \in 1..Len(uv) |-> uv[Len(uv) + 1 - i].data]

get_edge_data(g, u, v) ==
    LET IsUV(e) == e.u = u /\ e.v = v
        uv == SelectSeq(g.edges, IsUV)
    IN [i \in 1..Len(uv) |-> uv[i].data]

\* the edges that leave n alone
OutDegree(g, n) == Cardinality({i \in 1..Len(g.edges) : g.edges[i].u = n})

\* graph.degree(n) of a directed multigraph: in-degree plus out-degree
degree(g, n) ==
    Cardinality({i \in 1..Len(g.edges) : g.edges[i].u = n})
    + Cardinality({i \in 1..Len(g.edges) : g.edges[i].v = n})

\* the loops of add_node over a collection: the ids of one collection are
\* distinct, so each node is added or updated once
AddEntityNodes(g, ents) ==
    LET ids == { ents[i].entity_id : i \in 1..Len(ents) }
        Rec(n) == ents[CHOOSE i \in 1..Len(ents) : ents[i].entity_id = n]
    IN [g EXCEPT !.nodes =
           [n \in (DOMAIN g.nodes) \cup ids |->
               IF n \in ids
               THEN add_node(g, n,
                             [type |-> "entity", name |-> Rec(n).name,
                              jurisdiction |-> Rec(n).jurisdiction,
                              company_type |-> Rec(n).company_type,
                              status |-> Rec(n).status,
                              source |-> Rec(n).source,
                              countries |-> Rec(n).countries]).nodes[n]
               ELSE g.nodes[n]]]

AddOfficerNodes(g, offs) ==
    LET ids == { offs[i].officer_id : i \in 1..Len(offs) }
        Rec(n) == offs[CHOOSE i \in 1..Len(offs) : offs[i].officer_id = n]
    IN [g EXCEPT !.nodes =
           [n \in (DOMAIN g.nodes) \cup ids |->
               IF n \in ids
               THEN add_node(g, n,
                             [type |-> "officer", name |-> Rec(n).name,
                              countries |-> Rec(n).countries,
                              source |-> Rec(n).source]).nodes[n]
               ELSE g.nodes[n]]]

AddAddressNodes(g, addrs) ==
    LET ids == { addrs[i].address_id : i \in 1..Len(addrs) }
        Rec(n) == addrs[CHOOSE i \in 1..Len(addrs) : addrs[i].address_id = n]
    IN [g EXCEPT !.nodes =
           [n \in (DOMAIN g.nodes) \cup ids |->
               IF n \in ids
               THEN add_node(g, n,
                             [type |-> "address", address |-> Rec(n).address,
                              countries |-> Rec(n).countries,
                              source |-> Rec(n).source]).nodes[n]
               ELSE g.nodes[n]]]

\* the edge test without its check of the end node
EdgeIsAddedStartOnly(g, rel) == has_node(g, rel.start_node)

\* Only add edge if both nodes exist in graph
EdgeIsAdded(g, rel) == has_node(g, rel.start_node) /\ has_node(g, rel.end_node)

\* the loop of add_edge over the relationships whose two ends are nodes; the
\* loop adds no node, so the test reads the nodes the loop started with
AddRelationshipEdges(g, rels) ==
    LET IsAdded(rel) == EdgeIsAdded(g, rel)
        added == SelectSeq(rels, IsAdded)
    IN [g EXCEPT !.edges =
           @ \o [i \in 1..Len(added) |->
                    Edge(added[i].start_node, added[i].end_node,
                         [relationship |-> added[i].rel_type,
                          link |-> added[i].link,
                          status |-> added[i].status,
                          source |-> added[i].source])]]

\* the graph built from the records alone, what was in it before dropped
BuildGraphAfresh(g, ents, offs, addrs, rels) ==
    AddRelationshipEdges(
        AddAddressNodes(AddOfficerNodes(AddEntityNodes(EmptyGraph, ents), offs),
                        addrs),
        rels)

_build_graph(g, ents, offs, addrs, rels) ==
    AddRelationshipEdges(
        AddAddressNodes(AddOfficerNodes(AddEntityNodes(g, ents), offs), addrs),
        rels)

(***************************************************************************)
(* Document synthesis                                                      *)
(***************************************************************************)
Document(content, metadata) == [page_content |-> content, metadata |-> metadata]

\* rel_info of a neighbour: the relationship of the first edge to it
RelInfo(g, n, neighbor) ==
    LET edge_data == get_edge_data(g, n, neighbor)
    IN IF edge_data # <<>> THEN Get(edge_data[1], "relationship", "") ELSE ""

\* the scan without its test of the neighbour's type
NeighborsOfAnyType(g, n, type) == neighbors(g, n)

\* the neighbours for which node_data.get('type') == type, in scan order
NeighborsOfType(g, n, type) ==
    LET HasType(m) == Get(g.nodes[m], "type", "") = type
    IN SelectSeq(neighbors(g, n), HasType)

_get_entity_connections(g, entity_id) ==
    IF ~has_node(g, entity_id)
    THEN [officers |-> <<>>, addresses |-> <<>>, other_entities |-> <<>>]
    ELSE LET offs == NeighborsOfType(g, entity_id, "officer")
             addrs == NeighborsOfType(g, entity_id, "address")
             ents == NeighborsOfType(g, entity_id, "entity")
         IN [officers |->
                [i \in 1..Len(offs) |->
                    [name |-> Get(g.nodes[offs[i]], "name", ""),
                     countries |-> Get(g.nodes[offs[i]], "countries", ""),
                     relationship |-> RelInfo(g, entity_id, offs[i])]],
             addresses |->
                [i \in 1..Len(addrs) |->
                    [address |-> Get(g.nodes[addrs[i]], "address", ""),
                     countries |-> Get(g.nodes[addrs[i]], "countries", ""),
                     relationship |-> RelInfo(g, entity_id, addrs[i])]],
             other_entities |->
                [i \in 1..Len(ents) |->
                    [name |-> Get(g.nodes[ents[i]], "name", ""),
                     jurisdiction |-> Get(g.nodes[ents[i]], "jurisdiction", ""),
                     relationship |-> RelInfo(g, entity_id, ents[i])]]]

\* the connections of an officer cut to the entities its document lists
OfficerConnectionsListed(g, officer_id) ==
    IF ~has_node(g, officer_id)
    THEN [entities |-> <<>>]
    ELSE LET ents == Take(NeighborsOfType(g, officer_id, "entity"), EntityListCap)
         IN [entities |->
                [i \in 1..Len(ents) |->
                    [name |-> Get(g.nodes[ents[i]], "name", ""),
                     jurisdiction |-> Get(g.nodes[ents[i]], "jurisdiction", ""),
                     relationship |-> RelInfo(g, officer_id, ents[i])]]]

_get_officer_connections(g, officer_id) ==
    IF ~has_node(g, officer_id)
    THEN [entities |-> <<>>]
    ELSE LET ents == NeighborsOfType(g, officer_id, "entity")
         IN [entities |->
                [i \in 1..Len(ents) |->
                    [name |-> Get(g.nodes[ents[i]], "name", ""),
                     jurisdiction |-> Get(g.nodes[ents[i]], "jurisdiction", ""),
                     relationship |-> RelInfo(g, officer_id, ents[i])]]]

Opt(cond, piece) == IF cond THEN <<piece>> ELSE <<>>

_create_entity_document(entity, connections) ==
    LET offs == Take(connections.officers, OfficerListCap)
        addrs == Take(connections.addresses, AddressListCap)
        officer_info ==
            [i \in 1..Len(offs) |->
                <<offs[i].name, OrDefault(offs[i].relationship, "connected_to")>>]
        addr_info ==
            [i \in 1..Len(addrs) |->
                <<addrs[i].address,
                  OrDefault(addrs[i].relationship, "registered_address")>>]
    IN <<<<"Offshore Entity: ", entity.name>>,
         <<"Entity ID: ", entity.entity_id>>,
         <<"Jurisdiction: ", entity.jurisdiction>>>>
       \o Opt(entity.company_type # "", <<"Type: ", entity.company_type>>)
       \o <<<<"Status: ", entity.status>>>>
       \o Opt(entity.incorporation_date # "",
              <<"Incorporation Date: ", entity.incorporation_date>>)
       \o Opt(entity.address # "", <<"Address: ", entity.address>>)
       \o <<<<"Source: ", entity.source>>>>
       \o Opt(connections.officers # <<>>, <<"Connected Officers: ", officer_info>>)
       \o Opt(connections.addresses # <<>>, <<"Registered Addresses: ", addr_info>>)
       \o <<<<"Description: This is an offshore entity from the ", entity.source>>>>
       \o Opt(entity.jurisdiction # "", <<" incorporated in ", entity.jurisdiction>>)
       \o <<<<". This entity was revealed in the ", entity.source>>>>
       \o Opt(entity.jurisdiction # "",
              <<" and is incorporated in ", entity.jurisdiction>>)

_create_officer_document(officer, connections) ==
    LET ents == Take(connections.entities, EntityListCap)
        entity_info ==
            [i \in 1..Len(ents) |->
                <<ents[i].name, ents[i].jurisdiction,
                  OrDefault(ents[i].relationship, "officer_of")>>]
    IN <<<<"Individual: ", officer.name>>,
         <<"Officer ID: ", officer.officer_id>>>>
       \o Opt(officer.countries # "", <<"Country: ", officer.countries>>)
       \o <<<<"Source: ", officer.source>>>>
       \o Opt(connections.entities # <<>>, <<"Connected Entities: ", entity_info>>)
       \o <<<<"Description: ", officer.name>>>>
       \o Opt(officer.countries # "", <<" from ", officer.countries>>)
       \o <<<<" who appears in the ", officer.source>>>>
       \o Opt(connections.entities # <<>>,
              <<" with connections to ", Len(connections.entities)>>)

\* the different values of field among recs, in order of first occurrence
DistinctValues(recs, field) ==
    LET IsFirst(i) == \A j \in 1..(i - 1) : recs[j][field] # recs[i][field]
        first == SelectSeq([i \in 1..Len(recs) |-> i], IsFirst)
    IN [k \in 1..Len(first) |-> recs[first[k]][field]]

\* sorted(items, key=lambda x: x[1], reverse=True): stable
\* source_jurisdictions.items() taken as found, without sorted(...)
SortedAsFound(items) == items

\* sorted(items, key=lambda x: x[1], reverse=True): the items by falling
\* count, items of equal count in the order found
SortedByCountDesc(items) ==
    LET Rank(i) == 1 + Cardinality({ j \in 1..Len(items) :
                                       \/ items[j][2] > items[i][2]
                                       \/ items[j][2] = items[i][2] /\ j < i })
    IN [r \in 1..Len(items) |-> items[CHOOSE i \in 1..Len(items) : Rank(i) = r]]

_create_investigation_documents(ents) ==
    LET sources == DistinctValues(ents, "source")
        DocOf(source) ==
            LET FromSource(e) == e.source = source
                mine == SelectSeq(ents, FromSource)
                juris == DistinctValues(mine, "jurisdiction")
                source_jurisdictions ==
                    [i \in 1..Len(juris) |->
                        <<juris[i],
                          Cardinality({j \in 1..Len(mine) :
                                          mine[j].jurisdiction = juris[i]})>>]
                top_jurisdictions ==
                    Take(SortedByCountDesc(source_jurisdictions), JurisdictionCap)
            IN Document(
                  <<<<"Investigation: ", source>>,
                    <<"revealed entities: ", Len(mine)>>,
                    <<"across jurisdictions: ", Len(juris)>>,
                    <<"Key jurisdictions include: ", top_jurisdictions>>>>,
                  [type |-> "investigation", source |-> source,
                   title |-> <<"Investigation: ", source>>,
                   entity_count |-> Len(mine)])
    IN [i \in 1..Len(sources) |-> DocOf(sources[i])]

\* the entity document with its source read from the graph node
EntityDocumentFromNode(g, entity) ==
    Document(
        _create_entity_document(entity,
                                _get_entity_connections(g, entity.entity_id)),
        [entity_id |-> entity.entity_id, name |-> entity.name,
         type |-> "entity", jurisdiction |-> entity.jurisdiction,
         company_type |-> entity.company_type, status |-> entity.status,
         source |-> Get(g.nodes[entity.entity_id], "source", "Unknown"),
         countries |-> entity.countries,
         title |-> <<"Entity: ", entity.name>>])

EntityDocument(g, entity) ==
    Document(
        _create_entity_document(entity,
                                _get_entity_connections(g, entity.entity_id)),
        [entity_id |-> entity.entity_id, name |-> entity.name,
         type |-> "entity", jurisdiction |-> entity.jurisdiction,
         company_type |-> entity.company_type, status |-> entity.status,
         source |-> entity.source, countries |-> entity.countries,
         title |-> <<"Entity: ", entity.name>>])

\* the officer document without a title
OfficerDocumentUntitled(g, officer) ==
    Document(
        _create_officer_document(officer,
                                 _get_officer_connections(g, officer.officer_id)),
        [officer_id |-> officer.officer_id, name |-> officer.name,
         type |-> "officer", countries |-> officer.countries,
         source |-> officer.source])

OfficerDocument(g, officer) ==
    Document(
        _create_officer_document(officer,
                                 _get_officer_connections(g, officer.officer_id)),
        [officer_id |-> officer.officer_id, name |-> officer.name,
         type |-> "officer", countries |-> officer.countries,
         source |-> officer.source, title |-> <<"Officer: ", officer.name>>])

\* how many iterations of a loop over n items run before
\* "if doc_count >= max_docs: break" stops it, doc_count starting at start
LoopCount(n, start, max_docs) ==
    IF start >= max_docs THEN 0 ELSE Min(n, max_docs - start)

\* the local list documents of build_vector_store
SynthesizedDocuments(g, ents, offs, max_docs) ==
    LET ne == LoopCount(Len(ents), 0, max_docs)
        no == LoopCount(Len(offs), ne, max_docs)
    IN [i \in 1..ne |-> EntityDocument(g, ents[i])]
       \o [i \in 1..no |-> OfficerDocument(g, offs[i])]
       \o Take(_create_investigation_documents(ents), InvestigationCap)

NoStore == [built |-> FALSE, docs |-> <<>>]

\* FAISS.from_documents(documents, embedder)
FromDocuments(docs) == [built |-> TRUE, docs |-> docs]

\* the value of self.document_store after build_vector_store
StoreAfterBuild(store, docs) ==
    IF docs # <<>> THEN FromDocuments(docs) ELSE store

(***************************************************************************)
(* Retrieval                                                               *)
(***************************************************************************)
\* The queries of the model.  The embedding of a query decides the order
\* in which the index ranks its documents: the first query ranks them in
\* index order, the second in reverse index order.
Queries == {"offshore companies in Samoa", "Panama Papers entities"}

Ranking(query, n) ==
    IF query = "offshore companies in Samoa"
    THEN [i \in 1..n |-> i]
    ELSE [i \in 1..n |-> n + 1 - i]

\* document_store.similarity_search(query, k): the positions in the index
\* of the k best ranked documents, fewer if the index holds fewer
similarity_search(store, query, k) ==
    Take(Ranking(query, Len(store.docs)), k)

\* list(self.graph.neighbors(entity_id)) without the slice
AllNeighbors(g, n) == neighbors(g, n)

\* list(self.graph.neighbors(entity_id))[:5]
FirstNeighbors(g, n) == Take(neighbors(g, n), NeighborCap)

\* the metadata of the enhanced copy of doc
EnhancedMetadata(g, doc) ==
    LET md == doc.metadata
        entity_id == Get(md, "entity_id", "")
    IN IF Get(md, "type", "") = "entity" /\ entity_id # "" /\ has_node(g, entity_id)
       THEN LET nbrs == FirstNeighbors(g, entity_id)
                IsNamed(n) == Get(g.nodes[n], "type", "") \in {"officer", "address"}
                named == SelectSeq(nbrs, IsNamed)
                neighbor_info ==
                    [i \in 1..Len(named) |->
                        IF Get(g.nodes[named[i]], "type", "") = "officer"
                        THEN <<"Officer: ", Get(g.nodes[named[i]], "name", "Unknown")>>
                        ELSE <<"Address: ", Get(g.nodes[named[i]], "countries", "Unknown")>>]
            IN Merge(md, [network_degree |-> degree(g, entity_id),
                          connected_to |-> neighbor_info])
       ELSE md

\* the loop body writing the enrichment into the document it was given
EnhanceInPlace(g, doc) ==
    [enhanced |-> Document(doc.page_content, EnhancedMetadata(g, doc)),
     stored |-> Document(doc.page_content, EnhancedMetadata(g, doc))]

\* what the loop body of _enhance_with_graph_context does with one document
\* of the index: enhanced is the Document it appends, stored is the
\* document of the index after the body has run
EnhanceOne(g, doc) ==
    [enhanced |-> Document(doc.page_content, EnhancedMetadata(g, doc)),
     stored |-> doc]

\* the enhanced documents handed back in another order than they came in
EnhanceReordered(g, docs) ==
    [i \in 1..Len(docs) |-> EnhanceOne(g, docs[Len(docs) + 1 - i])]

_enhance_with_graph_context(g, docs) ==
    [i \in 1..Len(docs) |-> EnhanceOne(g, docs[i])]

\* retrieve without its second look at document_store
CouldNotBuildUnchecked(store) == FALSE

\* return enhanced_docs without the slice
TopKUnsliced(enhanced_docs, k) == enhanced_docs

\* return enhanced_docs[:k]
TopK(enhanced_docs, k) == Take(enhanced_docs, k)

\* if not self.document_store: build_vector_store()
LazyBuildNeeded(store) == ~store.built

\* if not self.document_store: return []
CouldNotBuild(store) == ~store.built

\* the outcome of retrieve(query, k): the index and the last synthesized
\* documents it leaves, whether it raised, and the list it returned
retrieve(g, ents, offs, store, lastDocs, query, k) ==
    LET lazy == LazyBuildNeeded(store)
        synthesized == IF lazy
                       THEN SynthesizedDocuments(g, ents, offs, DefaultMaxDocs)
                       ELSE lastDocs
        store1 == IF lazy THEN StoreAfterBuild(store, synthesized) ELSE store
    IN IF CouldNotBuild(store1)
       THEN [store |-> store1, documents |-> synthesized,
             built |-> lazy, raised |-> FALSE, value |-> <<>>]
       ELSE IF ~store1.built
       THEN \* similarity_search on None
            [store |-> store1, documents |-> synthesized,
             built |-> lazy, raised |-> TRUE, value |-> <<>>]
       ELSE LET hits == similarity_search(store1, query, k * OverfetchFactor)
                vector_docs == [i \in 1..Len(hits) |-> store1.docs[hits[i]]]
                out == _enhance_with_graph_context(g, vector_docs)
                enhanced_docs == [i \in 1..Len(out) |-> out[i].enhanced]
                StoredAt(p) ==
                    IF \E i \in 1..Len(hits) : hits[i] = p
                    THEN out[CHOOSE i \in 1..Len(hits) : hits[i] = p].stored
                    ELSE store1.docs[p]
            IN [store |-> [store1 EXCEPT !.docs =
                              [p \in 1..Len(store1.docs) |-> StoredAt(p)]],
                documents |-> synthesized,
                built |-> lazy, raised |-> FALSE,
                value |-> TopK(enhanced_docs, k)]

(***************************************************************************)
(* The retriever as a state machine                                        *)
(***************************************************************************)
Returned(op, k, built, raised, value) ==
    [op |-> op, k |-> k, built |-> built, raised |-> raised, value |-> value]

\* rerun follows a caller that runs load_icij_data and build_vector_store
\* and then both again with the same arguments on the same files:
\* stage 1 after the first load, 2 after the first build (first holds its
\* documents), 3 after the second load, 4 after the second build (second
\* holds its documents); 0 when the calls made are not such a run
RerunIdle ==
    [stage |-> 0,
     input |-> [dir |-> DataDir(<<>>, <<>>, <<>>, <<>>),
                lim |-> [entity |-> 0, officer |-> 0, address |-> 0,
                         relationship |-> 0]],
     max_docs |-> 0,
     first |-> <<>>, second |-> <<>>]

\* the callers of retrieve that may be inside it at once, and the locals
\* of one that is not: pc is where the caller is in retrieve ("idle" when
\* outside), vector_docs the positions in the index of the documents its
\* search returned, result what its last call returned, documents the list
\* build_vector_store fills when the caller runs it from retrieve
Callers == 1..NumCallers

NotCalling ==
    [pc |-> "idle", query |-> "", k |-> 0, documents |-> <<>>,
     vector_docs |-> <<>>, enhanced_docs |-> <<>>, result |-> <<>>]

Init ==
    /\ entities = <<>>
    /\ officers = <<>>
    /\ addresses = <<>>
    /\ relationships = <<>>
    /\ graph = EmptyGraph
    /\ document_store = NoStore
    /\ documents = <<>>
    /\ ret = Returned("__init__", 0, FALSE, FALSE, <<>>)
    /\ loads = 0
    /\ rerun = RerunIdle
    /\ calls = [c \in Callers |-> NotCalling]

load_icij_data(dir, lim) ==
    LET data == load_all_data(dir, lim)
    IN /\ loads < MaxLoads
       /\ loads' = loads + 1
       /\ entities' = IF data.raised THEN entities ELSE data.entities
       /\ officers' = IF data.raised THEN officers ELSE data.officers
       /\ addresses' = IF data.raised THEN addresses ELSE data.addresses
       /\ relationships' = IF data.raised THEN relationships
                           ELSE data.relationships
       /\ graph' = IF data.raised THEN graph
                   ELSE _build_graph(graph, data.entities, data.officers,
                                     data.addresses, data.relationships)
       /\ ret' = Returned("load_icij_data", 0, FALSE, data.raised, <<>>)
       /\ rerun' = IF rerun.stage = 2 /\ rerun.input = [dir |-> dir, lim |-> lim]
                   THEN [rerun EXCEPT !.stage = 3]
                   ELSE [RerunIdle EXCEPT !.stage = 1,
                                          !.input = [dir |-> dir, lim |-> lim]]
       /\ UNCHANGED <<document_store, documents, calls>>

build_vector_store(max_docs) ==
    LET docs == SynthesizedDocuments(graph, entities, officers, max_docs)
    IN /\ documents' = docs
       /\ document_store' = StoreAfterBuild(document_store, docs)
       /\ ret' = Returned("build_vector_store", 0, TRUE, FALSE, <<>>)
       /\ rerun' = IF rerun.stage = 1
                   THEN [rerun EXCEPT !.stage = 2, !.max_docs = max_docs,
                                      !.first = docs]
                   ELSE IF rerun.stage = 3 /\ rerun.max_docs = max_docs
                   THEN [rerun EXCEPT !.stage = 4, !.second = docs]
                   ELSE RerunIdle
       /\ UNCHANGED <<entities, officers, addresses, relationships, graph, loads,
                      calls>>

Retrieve(query, k) ==
    LET out == retrieve(graph, entities, officers, document_store, documents,
                        query, k)
    IN /\ document_store' = out.store
       /\ documents' = out.documents
       /\ ret' = Returned("retrieve", k, out.built, out.raised, out.value)
       /\ rerun' = IF out.built THEN RerunIdle ELSE rerun
       /\ UNCHANGED <<entities, officers, addresses, relationships, graph, loads,
                      calls>>

Load == \E dir \in DataDirs, lim \in LimitArgs : load_icij_data(dir, lim)

Build == \E max_docs \in 0..MaxDocsArg : build_vector_store(max_docs)

Search == \E query \in Queries, k \in 0..MaxK : Retrieve(query, k)

Next == Load \/ Build \/ Search

Spec == Init /\ [][Next]_vars

(***************************************************************************)
(* Properties                                                              *)
(***************************************************************************)
LoadedIds(ents, offs, addrs) ==
    {ents[i].entity_id : i \in 1..Len(ents)}
    \cup {offs[i].officer_id : i \in 1..Len(offs)}
    \cup {addrs[i].address_id : i \in 1..Len(addrs)}

EntityIds == {entities[i].entity_id : i \in 1..Len(entities)}

OfficerIds == {officers[i].officer_id : i \in 1..Len(officers)}

AddressIds == {addresses[i].address_id : i \in 1..Len(addresses)}

\* C1: a load adds no node but the loaded ids, so none for an endpoint
\* that is in no file; it adds one edge for each relationship record whose
\* two endpoints are nodes of the graph when _build_graph processes it, in
\* record order, and none for any other record; every edge of the graph
\* joins two node ids that were loaded.
C1_DanglingDropped ==
    [][Load =>
        LET ids == LoadedIds(entities', officers', addresses')
            Kept(rel) == rel.start_node \in DOMAIN graph'.nodes
                         /\ rel.end_node \in DOMAIN graph'.nodes
            kept == SelectSeq(relationships', Kept)
            old == Len(graph.edges)
        IN /\ DOMAIN graph'.nodes = (DOMAIN graph.nodes) \cup ids
           /\ Len(graph'.edges) = old + Len(kept)
           /\ SubSeq(graph'.edges, 1, old) = graph.edges
           /\ \A i \in 1..Len(kept) :
                 /\ graph'.edges[old + i].u = kept[i].start_node
                 /\ graph'.edges[old + i].v = kept[i].end_node
           /\ \A i \in 1..Len(graph'.edges) :
                 /\ graph'.edges[i].u \in DOMAIN graph'.nodes
                 /\ graph'.edges[i].v \in DOMAIN graph'.nodes
    ]_vars

\* a load has dropped a record with an unknown endpoint and kept another
C1_Witness ==
    /\ ret.op = "load_icij_data"
    /\ \E i \in 1..Len(relationships) :
          relationships[i].end_node \notin DOMAIN graph.nodes
    /\ graph.edges # <<>>
    /\ Len(graph.edges) < Len(relationships)

\* C2: the graph never has more edges than relationship records are loaded.
C2_EdgesAtMostRelationships ==
    number_of_edges(graph) <= Len(relationships)

\* C3: after a load the graph has as many nodes as records are loaded.
C3_NodeCountIsRecordCount ==
    ret.op = "load_icij_data" =>
        number_of_nodes(graph) = Len(entities) + Len(officers) + Len(addresses)

\* C4: every node of the graph is in exactly one of the three collections
\* and has the type of that collection.
C4_OneVariantPerNode ==
    \A n \in DOMAIN graph.nodes :
        \/ /\ n \in EntityIds /\ n \notin OfficerIds /\ n \notin AddressIds
           /\ graph.nodes[n].type = "entity"
        \/ /\ n \notin EntityIds /\ n \in OfficerIds /\ n \notin AddressIds
           /\ graph.nodes[n].type = "officer"
        \/ /\ n \notin EntityIds /\ n \notin OfficerIds /\ n \in AddressIds
           /\ graph.nodes[n].type = "address"

\* C5: retrieve(q, k) returns min(k, number of documents in the index)
\* documents.
C5_ResultLength ==
    ret.op = "retrieve" =>
        /\ ~ret.raised
        /\ Len(ret.value) = Min(ret.k, Len(document_store.docs))

\* a retrieve cut its candidates down to k
C5_WitnessCut ==
    /\ ret.op = "retrieve"
    /\ ret.k > 0
    /\ Len(document_store.docs) > ret.k
    /\ Len(ret.value) = ret.k

\* a retrieve returned the whole index, which holds fewer than k documents
C5_Witness ==
    /\ ret.op = "retrieve"
    /\ Len(document_store.docs) > 0
    /\ Len(document_store.docs) < ret.k
    /\ Len(ret.value) = Len(document_store.docs)

\* C6: when the last synthesis made no document, retrieve returns the empty
\* list and does not raise.
C6_EmptyAfterEmptyBuild ==
    (ret.op = "retrieve" /\ documents = <<>>) =>
        (ret.value = <<>> /\ ~ret.raised)

\* C7: retrieve on an unset document_store runs build_vector_store with its
\* default cap first; it does not raise; if the build made an index, the
\* results are the best ranked documents of that index, and if it made
\* none, no search is made and the result is empty.
C7_LazyBuild ==
    [][\A query \in Queries, k \in 0..MaxK :
        (Retrieve(query, k) /\ ~document_store.built) =>
            LET docs == SynthesizedDocuments(graph, entities, officers,
                                             DefaultMaxDocs)
                rank == Ranking(query, Len(docs))
            IN /\ ret'.built
               /\ ~ret'.raised
               /\ documents' = docs
               /\ document_store'.built = (docs # <<>>)
               /\ document_store'.docs = docs
               /\ Len(ret'.value) = Min(k, Len(docs))
               /\ \A i \in 1..Len(ret'.value) :
                     ret'.value[i].page_content = docs[rank[i]].page_content
    ]_vars

\* a retrieve built the index itself and returned documents of it
C7_Witness ==
    /\ ret.op = "retrieve"
    /\ ret.built
    /\ ret.value # <<>>
    /\ document_store.built


\* C8: a retrieve on a built index leaves every document of the index as
\* it was, and no document of the index ever carries an enrichment key.
C8_IndexUnchanged ==
    [][/\ (Search /\ document_store.built) => document_store' = document_store
       /\ \A i \in 1..Len(document_store'.docs) :
             (DOMAIN document_store'.docs[i].metadata)
                 \cap {"network_degree", "connected_to"} = {}
    ]_vars

\* a retrieve returned an enriched entity document
C8_Witness ==
    /\ ret.op = "retrieve"
    /\ \E i \in 1..Len(ret.value) :
          /\ "network_degree" \in DOMAIN ret.value[i].metadata
          /\ ret.value[i].metadata.connected_to # <<>>

\* C9: the entity documents of a synthesis are made from the loaded entity
\* records in order, the i-th from the i-th record; each has type "entity"
\* and the jurisdiction and source of its record.
C9_EntityMetadata ==
    ret.built =>
        \A i \in 1..Len(documents) :
            documents[i].metadata.type = "entity" =>
                /\ i <= Len(entities)
                /\ documents[i].metadata.entity_id = entities[i].entity_id
                /\ documents[i].metadata.jurisdiction = entities[i].jurisdiction
                /\ documents[i].metadata.source = entities[i].source

\* a synthesis made a document for an entity whose id is also an officer's
C9_Witness ==
    /\ ret.built
    /\ \E i \in 1..Len(documents) :
          /\ documents[i].metadata.type = "entity"
          /\ documents[i].metadata.entity_id \in OfficerIds
          /\ documents[i].metadata.source = "Panama Papers"

\* C10: load_icij_data and build_vector_store, run twice with the same
\* arguments on the same files, synthesize the same documents both times.
C10_RebuildSameDocuments ==
    rerun.stage = 4 => rerun.first = rerun.second

\* the second run doubled the edges of a node whose document lists its
\* neighbours
C10_Witness ==
    /\ rerun.stage = 4
    /\ \E i \in 1..Len(rerun.second) :
          \E j \in 1..Len(rerun.second[i].page_content) :
              rerun.second[i].page_content[j][1] = "Connected Officers: "
    /\ \E i, j \in 1..Len(graph.edges) :
          i # j /\ graph.edges[i] = graph.edges[j]

\* C13: a build_vector_store(max_docs) synthesizes at most max_docs
\* documents in all.
C13_DocumentCap ==
    [][\A max_docs \in 0..MaxDocsArg :
          build_vector_store(max_docs) => Len(documents') <= max_docs
    ]_vars

DocumentTypes == {"entity", "officer", "investigation"}

HasTitleAndType(doc) ==
    /\ "title" \in DOMAIN doc.metadata
    /\ "type" \in DOMAIN doc.metadata
    /\ doc.metadata.type \in DocumentTypes

\* C20: every synthesized document, every document of the index and every
\* result of retrieve has a title and a type that is entity, officer or
\* investigation.
C20_TitleAndType ==
    /\ \A i \in 1..Len(documents) : HasTitleAndType(documents[i])
    /\ \A i \in 1..Len(document_store.docs) :
          HasTitleAndType(document_store.docs[i])
    /\ ret.op = "retrieve" =>
          \A i \in 1..Len(ret.value) : HasTitleAndType(ret.value[i])

\* with addresses loaded, a synthesis made documents of the three types and
\* a retrieve returned an officer document
C20_Witness ==
    /\ addresses # <<>>
    /\ \A t \in DocumentTypes :
          \E i \in 1..Len(documents) : documents[i].metadata.type = t
    /\ ret.op = "retrieve"
    /\ \E i \in 1..Len(ret.value) : ret.value[i].metadata.type = "officer"

(***************************************************************************)
(* The retriever with an index loaded from disk: the server and the test   *)
(* of the saved vector store load a graph and then assign to               *)
(* document_store an index that another retriever built and saved.         *)
(***************************************************************************)
\* the documents of the index that a fresh retriever saves after
\* load_icij_data over dir with limits lim and build_vector_store(max_docs)
SavedIndexDocuments(dir, lim, max_docs) ==
    LET data == load_all_data(dir, lim)
        g == _build_graph(EmptyGraph, data.entities, data.officers,
                          data.addresses, data.relationships)
    IN SynthesizedDocuments(g, data.entities, data.officers, max_docs)

\* retriever.document_store = FAISS.load_local(...)
AssignSavedIndex(dir, lim, max_docs) ==
    LET docs == SavedIndexDocuments(dir, lim, max_docs)
    IN /\ docs # <<>>
       /\ document_store' = FromDocuments(docs)
       /\ ret' = Returned("load_local", 0, FALSE, FALSE, <<>>)
       /\ UNCHANGED <<entities, officers, addresses, relationships, graph,
                      documents, loads, rerun, calls>>

NextServer ==
    \/ Load
    \/ \E dir \in DataDirs, lim \in LimitArgs, max_docs \in 0..MaxDocsArg :
          AssignSavedIndex(dir, lim, max_docs)
    \/ Search

SpecServer == Init /\ [][NextServer]_vars

\* C12: every entity document that retrieve returns carries a
\* network_degree that is at least 0.
C12_EntityHitsHaveDegree ==
    ret.op = "retrieve" =>
        \A i \in 1..Len(ret.value) :
            ret.value[i].metadata.type = "entity" =>
                /\ "network_degree" \in DOMAIN ret.value[i].metadata
                /\ ret.value[i].metadata.network_degree >= 0

(***************************************************************************)
(* A larger data directory: one entity with more neighbours than the       *)
(* lists of a document hold, one officer with more entities, more sources  *)
(* than investigation documents are kept, and one source with more         *)
(* jurisdictions than a summary lists.                                     *)
(***************************************************************************)
BulkId(i) == "B" \o ToString(i)

\* the jurisdictions of the further entities of the first source
ExtraJurisdictions == <<"J2", "J3", "J3", "J4", "J5", "J6", "J6", "J6">>

NumBulkEntities == NumBulkSources + Len(ExtraJurisdictions)

BulkEntityRow(i) ==
    IF i <= NumBulkSources
    THEN EntityRow(BulkId(i), "Entity " \o ToString(i),
                   IF i = 1 THEN "J1" ELSE "BVI", "Company", "Active",
                   "Leak " \o ToString(i))
    ELSE EntityRow(BulkId(i), "Entity " \o ToString(i),
                   ExtraJurisdictions[i - NumBulkSources], "", "", "Leak 1")

BulkOfficerRows ==
    [i \in 1..6 |->
        OfficerRow("P" \o ToString(i), "Person " \o ToString(i),
                   IF i = 2 THEN "Samoa;Niue" ELSE "Samoa", "Leak 1")]

BulkAddressRows ==
    [i \in 1..4 |->
        AddressRow("A" \o ToString(i), ToString(i) \o " Main St",
                   IF i = 1 THEN "Samoa;Niue" ELSE "Samoa", "Leak 1")]

\* the hub entity B1 is related to 6 officers, 4 addresses and an entity,
\* twice to the first officer; the officer P1 is related to 7 entities
BulkRelRows ==
    << RelRow("B1", "P1", "director"), RelRow("B1", "A1", ""),
       RelRow("B1", "P2", "shareholder"), RelRow("B1", "P3", ""),
       RelRow("B1", "A2", "registered_address"),
       RelRow("B1", "P1", "secretary"), RelRow("B1", "B2", "same_as"),
       RelRow("B1", "P4", "director"), RelRow("B1", "P5", "director"),
       RelRow("B1", "P6", "director"), RelRow("B1", "A3", ""),
       RelRow("B1", "A4", "") >>
    \o [i \in 1..7 |-> RelRow("P1", BulkId(i), IF i = 2 THEN "" ELSE "officer_of")]

DirBulk ==
    DataDir([i \in 1..NumBulkEntities |-> BulkEntityRow(i)],
            BulkOfficerRows, BulkAddressRows, BulkRelRows)

NextBulk ==
    \/ \E lim \in { [entity |-> DefaultEntityLimit,
                      officer |-> DefaultOfficerLimit,
                      address |-> DefaultAddressLimit,
                      relationship |-> DefaultRelationshipLimit],
                     [entity |-> 3, officer |-> 3, address |-> 1,
                      relationship |-> 4] } :
          load_icij_data(DirBulk, lim)
    \/ Build
    \/ Search

SpecBulk == Init /\ [][NextBulk]_vars

(***************************************************************************)
(* connected_to                                                            *)
(*                                                                         *)
(* connected_to is "; ".join(neighbor_info); the model keeps the joined    *)
(* items as a sequence and counts the pieces a reader gets by splitting    *)
(* the joined text at its semicolons.                                      *)
(***************************************************************************)
\* the field values of the data at hand that contain semicolons, with the
\* number each contains
Semicolons == [text \in {"Samoa;Niue"} |-> 1]

SemicolonsIn(text) == IF text \in DOMAIN Semicolons THEN Semicolons[text] ELSE 0

\* len("; ".join(items).split(";")): one piece more than the semicolons of
\* the text, those of the separators and those inside the items
SeparatedItems(items) ==
    LET inside == { <<i, j>> \in (1..Len(items)) \X (1..1) :
                       j <= SemicolonsIn(items[i][2]) }
    IN IF items = <<>> THEN 1 ELSE Len(items) + Cardinality(inside)

\* the results of the last retrieve that carry connected_to
ResultsWithConnectedTo ==
    IF ret.op = "retrieve"
    THEN { i \in 1..Len(ret.value) : "connected_to" \in DOMAIN ret.value[i].metadata }
    ELSE {}

InvestigationDocuments ==
    LET IsInvestigation(doc) == doc.metadata.type = "investigation"
    IN SelectSeq(documents, IsInvestigation)

\* the source labels of the loaded entities
LoadedSources == { entities[i].source : i \in 1..Len(entities) }

\* how many loaded entities have the source, and how many of those the
\* jurisdiction
EntitiesOfSource(source) ==
    Cardinality({ i \in 1..Len(entities) : entities[i].source = source })

EntitiesOfSourceIn(source, jurisdiction) ==
    Cardinality({ i \in 1..Len(entities) :
                     /\ entities[i].source = source
                     /\ entities[i].jurisdiction = jurisdiction })

\* the (jurisdiction, count) pairs the content of an investigation
\* document lists after "Key jurisdictions include: "
ListedJurisdictions(doc) == doc.page_content[4][2]

\* C14: after a build, the investigation documents are one per distinct
\* source of the loaded entities, at most 100 of them; entity_count is the
\* number of loaded entities of the source; the listed jurisdictions are at
\* most 5 distinct jurisdictions of the source with their entity counts, in
\* non-increasing order of count, none left out having more entities than
\* one listed
C14_InvestigationDocuments ==
    ret.built =>
        LET inv == InvestigationDocuments
        IN /\ Len(inv) = Min(Cardinality(LoadedSources), InvestigationCap)
           /\ \A i \in 1..Len(inv) : inv[i].metadata.source \in LoadedSources
           /\ \A i, j \in 1..Len(inv) :
                 i # j => inv[i].metadata.source # inv[j].metadata.source
           /\ \A i \in 1..Len(inv) :
                 LET source == inv[i].metadata.source
                     listed == ListedJurisdictions(inv[i])
                     all == { entities[e].jurisdiction :
                                e \in { x \in 1..Len(entities) :
                                          entities[x].source = source } }
                 IN /\ inv[i].metadata.entity_count = EntitiesOfSource(source)
                    /\ Len(listed) = Min(Cardinality(all), JurisdictionCap)
                    /\ \A a \in 1..Len(listed) :
                          /\ listed[a][1] \in all
                          /\ listed[a][2] = EntitiesOfSourceIn(source, listed[a][1])
                    /\ \A a, b \in 1..Len(listed) :
                          a < b => /\ listed[a][1] # listed[b][1]
                                   /\ listed[a][2] >= listed[b][2]
                    /\ \A a \in 1..Len(listed) :
                          \A other \in all \ { listed[b][1] : b \in 1..Len(listed) } :
                             EntitiesOfSourceIn(source, other) <= listed[a][2]

\* a build over entities of more than 100 sources, one of which has more
\* than 5 jurisdictions with different entity counts
C14_Witness ==
    /\ ret.built
    /\ Cardinality(LoadedSources) > InvestigationCap
    /\ Len(InvestigationDocuments) = InvestigationCap
    /\ \E i \in 1..Len(InvestigationDocuments) :
          LET doc == InvestigationDocuments[i]
              listed == ListedJurisdictions(doc)
          IN /\ doc.page_content[3][2] > JurisdictionCap
             /\ Len(listed) = JurisdictionCap
             /\ listed[1][2] > listed[JurisdictionCap][2]
             /\ doc.metadata.entity_count > 1

(***************************************************************************)
(* The loader on files that are missing, broken or incomplete, and the     *)
(* category loaders called on their own                                    *)
(***************************************************************************)
Categories == {"entities", "officers", "addresses", "relationships"}

Columns(c) ==
    CASE c = "entities" -> EntityColumns
      [] c = "officers" -> OfficerColumns
      [] c = "addresses" -> AddressColumns
      [] c = "relationships" -> RelationshipColumns

LimitOf(lim, c) ==
    CASE c = "entities" -> lim.entity
      [] c = "officers" -> lim.officer
      [] c = "addresses" -> lim.address
      [] c = "relationships" -> lim.relationship

\* the category loader of c
Loader(c, file, limit) ==
    CASE c = "entities" -> load_entities(file, limit)
      [] c = "officers" -> load_officers(file, limit)
      [] c = "addresses" -> load_addresses(file, limit)
      [] c = "relationships" -> load_relationships(file, limit)

\* the collection of the records of rows, each field empty or missing
\* replaced by its default
Loaded(c, rows) ==
    CASE c = "entities" ->
            DictOf([i \in 1..Len(rows) |-> EntityOfRow(rows[i])], "entity_id")
      [] c = "officers" ->
            DictOf([i \in 1..Len(rows) |-> OfficerOfRow(rows[i])], "officer_id")
      [] c = "addresses" ->
            DictOf([i \in 1..Len(rows) |-> AddressOfRow(rows[i])], "address_id")
      [] c = "relationships" ->
            [i \in 1..Len(rows) |-> RelationshipOfRow(rows[i])]

WithFile(dir, c, file) == [dir EXCEPT ![c] = file]



DirBrokenEntities == WithFile(DirRegular, "entities", BrokenFile(DirRegular.entities))

DirNoOfficers == WithFile(DirRegular, "officers", MissingFile)

DirNoCountries ==
    WithFile(DirRegular, "addresses",
             CsvFile(AddressColumns \ {"countries"},
                     << [node_id |-> "N4", address |-> "1 Main St",
                         sourceID |-> "Panama Papers"] >>))

DirNoRelationships == WithFile(DirRegular, "relationships", MissingFile)

DirShortRow ==
    WithFile(DirRegular, "entities", CsvFile(EntityColumns,
                     <<RowE1, [node_id |-> "N5", name |-> "Gamma Inc"]>>))

LoaderDirs ==
    {DirRegular, DirBrokenEntities, DirNoOfficers, DirNoCountries,
     DirNoRelationships, DirShortRow}

LoaderLimitArgs ==
    { [entity |-> 0, officer |-> 0, address |-> 0, relationship |-> 0],
      [entity |-> 1, officer |-> 1, address |-> 1, relationship |-> 2] }

\* the limits of a call of one category loader: none given, or a row count
LoaderLimits == {None} \cup (0..MaxLimit)

LoaderName(c) ==
    CASE c = "entities" -> "load_entities"
      [] c = "officers" -> "load_officers"
      [] c = "addresses" -> "load_addresses"
      [] c = "relationships" -> "load_relationships"

\* data_loader.load_entities(limit) and its like, called on their own:
\* they return the collection and keep nothing
CallLoader(c, file, limit) ==
    LET out == Loader(c, file, limit)
    IN /\ ret' = Returned(LoaderName(c), 0, FALSE, out.raised, out.value)
       /\ UNCHANGED <<entities, officers, addresses, relationships, graph,
                      document_store, documents, loads, rerun, calls>>

LoadFiles == \E dir \in LoaderDirs, lim \in LoaderLimitArgs : load_icij_data(dir, lim)

NextLoader ==
    \/ LoadFiles
    \/ \E c \in Categories, limit \in LoaderLimits :
          CallLoader(c, DirRegular[c], limit)

SpecLoader == Init /\ [][NextLoader]_vars

\* the rows a loader given the limit is to read: the first min(limit, rows)
\* rows, all rows when no limit is given
FirstRows(rows, limit) ==
    IF limit = None THEN rows ELSE SubSeq(rows, 1, Min(limit, Len(rows)))

\* C15: a category loader called with limit N (N = 0 included) on a readable
\* file returns the collection of the first min(N, rows) rows of the file,
\* and the collection of all rows when no limit is given
C15_FirstRowsLoaded ==
    [][\A c \in Categories, limit \in LoaderLimits :
          CallLoader(c, DirRegular[c], limit)
             => /\ ret'.value = Loaded(c, FirstRows(DirRegular[c].rows, limit))
                /\ limit # None => Len(ret'.value) <= limit]_vars

\* the input of the load_icij_data that has just returned, and what it left
LastLoadReturned == ret.op = "load_icij_data"

LastInput == rerun.input

Collection(c) ==
    CASE c = "entities" -> entities
      [] c = "officers" -> officers
      [] c = "addresses" -> addresses
      [] c = "relationships" -> relationships

\* the load of category c of the input fails: its file is missing, its
\* header lacks a column, or the reader raises while the loader reads it
Fails(input, c) == ReadRaises(input.dir[c], Columns(c), LimitOf(input.lim, c))

OnlyFails(input, c) ==
    /\ Fails(input, c)
    /\ \A d \in Categories \ {c} : ~Fails(input, d)

\* the collections load_all_data returns for the input
AllData(input) ==
    LET data == load_all_data(input.dir, input.lim)
    IN [c \in Categories |->
          CASE c = "entities" -> data.entities
            [] c = "officers" -> data.officers
            [] c = "addresses" -> data.addresses
            [] c = "relationships" -> data.relationships]

\* C16: load_all_data returns, no exception escaping; when the load of one
\* category fails (file missing or malformed), that category is empty and
\* each other category is what it is with a valid file in the failing
\* one's place
C16_OneFileFails ==
    LastLoadReturned =>
        /\ ~ret.raised
        /\ \A c \in Categories :
              OnlyFails(LastInput, c) =>
                 LET repaired == [LastInput EXCEPT !.dir[c] = DirRegular[c]]
                 IN /\ ~Fails(repaired, c)
                    /\ Collection(c) = <<>>
                    /\ \A d \in Categories \ {c} :
                          Collection(d) = AllData(repaired)[d]

\* a load whose entity file is broken after rows the loader has read, the
\* other three categories loaded and not empty
C16_Witness ==
    /\ LastLoadReturned
    /\ OnlyFails(LastInput, "entities")
    /\ LastInput.dir.entities.broken
    /\ LastInput.dir.entities.rows # <<>>
    /\ entities = <<>>
    /\ officers # <<>> /\ addresses # <<>> /\ relationships # <<>>

\* C17: after a load, each category whose file is there and readable holds
\* every row read, each empty or missing field replaced by its default
C17_DefaultsNeverFail ==
    LastLoadReturned =>
        \A c \in Categories :
           LET file == LastInput.dir[c]
               limit == LimitOf(LastInput.lim, c)
           IN (~OpenRaises(file) /\ ~ReaderRaises(file, limit))
                 => Collection(c) = Loaded(c, RowsRead(file.rows, limit))

(***************************************************************************)
(* retrieve while the embedding service or the index search fails          *)
(***************************************************************************)
\* what fails: "embed", every request to the embedder (FAISS.from_documents
\* embeds the documents, similarity_search the query); "search", the
\* search of the index alone
BackendFailures == {"embed", "search"}

\* a handler around the failing call that returns [] in place of the error
Swallowed(out) == [out EXCEPT !.raised = FALSE]

\* retrieve has no handler: the exception leaves it as raised
Propagated(out) == out

\* the outcome of retrieve(query, k) under the failure
retrieve_failing(fails, g, ents, offs, store, lastDocs, query, k) ==
    LET lazy == LazyBuildNeeded(store)
        synthesized == IF lazy
                       THEN SynthesizedDocuments(g, ents, offs, DefaultMaxDocs)
                       ELSE lastDocs
        from_documents_raises == lazy /\ synthesized # <<>> /\ fails = "embed"
        store1 == IF lazy /\ ~from_documents_raises
                  THEN StoreAfterBuild(store, synthesized)
                  ELSE store
    IN IF from_documents_raises
       THEN Propagated([store |-> store, documents |-> synthesized,
                        built |-> lazy, raised |-> TRUE, value |-> <<>>])
       ELSE IF CouldNotBuild(store1)
       THEN [store |-> store1, documents |-> synthesized,
             built |-> lazy, raised |-> FALSE, value |-> <<>>]
       ELSE \* similarity_search raises
            Propagated([store |-> store1, documents |-> synthesized,
                        built |-> lazy, raised |-> TRUE, value |-> <<>>])

RetrieveFailing(query, k, fails) ==
    LET out == retrieve_failing(fails, graph, entities, officers,
                                document_store, documents, query, k)
    IN /\ document_store' = out.store
       /\ documents' = out.documents
       /\ ret' = Returned("retrieve", k, out.built, out.raised, out.value)
       /\ rerun' = IF out.built THEN RerunIdle ELSE rerun
       /\ UNCHANGED <<entities, officers, addresses, relationships, graph, loads,
                      calls>>

NextFailing ==
    \/ Load
    \/ Build
    \/ Search
    \/ \E query \in Queries, k \in 0..MaxK, fails \in BackendFailures :
          RetrieveFailing(query, k, fails)

SpecFailing == Init /\ [][NextFailing]_vars

\* whether retrieve makes a request to the backend: it searches a set
\* index, or has documents to build one from
BackendCalled ==
    \/ document_store.built
    \/ SynthesizedDocuments(graph, entities, officers, DefaultMaxDocs) # <<>>

\* C18: a retrieve during which the embedder or the search fails raises to
\* its caller and returns nothing, whether the failure is in the build it
\* ran first or in the search, and the graph and the loaded collections are
\* as before the call
C18_FailurePropagates ==
    [][\A query \in Queries, k \in 0..MaxK, fails \in BackendFailures :
          RetrieveFailing(query, k, fails) =>
             /\ BackendCalled => (ret'.raised /\ ret'.value = <<>>)
             /\ UNCHANGED <<graph, entities, officers, addresses, relationships>>
      ]_vars

\* a retrieve that built the index itself and then raised from the search
C18_Witness ==
    /\ ret.op = "retrieve"
    /\ ret.raised
    /\ ret.built
    /\ document_store.built
    /\ entities # <<>>

(***************************************************************************)
(* retrieve called by several callers at once (the server hands each       *)
(* request to retrieve without a lock).  A call goes through retrieve      *)
(* statement by statement; the loop of _enhance_with_graph_context is one  *)
(* step.  Calls start on a set index, and load_icij_data and               *)
(* build_vector_store run only while no call is inside retrieve.           *)
(***************************************************************************)
NoCallInside == \A c \in Callers : calls[c].pc = "idle"

\* retrieve(query, k) entered: both tests of document_store find it set
BeginRetrieve(c, query, k) ==
    /\ calls[c].pc = "idle"
    /\ ~LazyBuildNeeded(document_store)
    /\ ~CouldNotBuild(document_store)
    /\ calls' = [calls EXCEPT ![c] = [NotCalling EXCEPT !.pc = "search",
                                                       !.query = query,
                                                       !.k = k]]
    /\ UNCHANGED <<entities, officers, addresses, relationships, graph,
                   document_store, documents, ret, loads, rerun>>

\* vector_docs = self.document_store.similarity_search(query, k=k*2)
SearchStep(c) ==
    /\ calls[c].pc = "search"
    /\ calls' = [calls EXCEPT
                   ![c].pc = "enhance",
                   ![c].vector_docs =
                       similarity_search(document_store, calls[c].query,
                                         calls[c].k * OverfetchFactor)]
    /\ UNCHANGED <<entities, officers, addresses, relationships, graph,
                   document_store, documents, ret, loads, rerun>>

\* enhanced_docs = self._enhance_with_graph_context(vector_docs, query)
EnhanceStep(c) ==
    LET hits == calls[c].vector_docs
        out == _enhance_with_graph_context(
                  graph, [i \in 1..Len(hits) |-> document_store.docs[hits[i]]])
        StoredAt(p) ==
            IF \E i \in 1..Len(hits) : hits[i] = p
            THEN out[CHOOSE i \in 1..Len(hits) : hits[i] = p].stored
            ELSE document_store.docs[p]
    IN /\ calls[c].pc = "enhance"
       /\ calls' = [calls EXCEPT
                      ![c].pc = "return",
                      ![c].enhanced_docs = [i \in 1..Len(out) |-> out[i].enhanced]]
       /\ document_store' =
             [document_store EXCEPT
                 !.docs = [p \in 1..Len(document_store.docs) |-> StoredAt(p)]]
       /\ UNCHANGED <<entities, officers, addresses, relationships, graph,
                      documents, ret, loads, rerun>>

\* return enhanced_docs[:k]
ReturnStep(c) ==
    /\ calls[c].pc = "return"
    /\ calls' = [calls EXCEPT
                   ![c].pc = "idle",
                   ![c].vector_docs = <<>>,
                   ![c].enhanced_docs = <<>>,
                   ![c].result = TopK(calls[c].enhanced_docs, calls[c].k)]
    /\ UNCHANGED <<entities, officers, addresses, relationships, graph,
                   document_store, documents, ret, loads, rerun>>

\* the steps of the calls inside retrieve
CallStep ==
    \/ \E c \in Callers, query \in Queries, k \in 0..MaxK :
          BeginRetrieve(c, query, k)
    \/ \E c \in Callers : SearchStep(c)
    \/ \E c \in Callers : EnhanceStep(c)
    \/ \E c \in Callers : ReturnStep(c)

\* load_icij_data with its default limits and build_vector_store with its
\* default cap, run while no call is inside retrieve
LoadAlone ==
    /\ NoCallInside
    /\ load_icij_data(DirRegular,
                      [entity |-> DefaultEntityLimit,
                       officer |-> DefaultOfficerLimit,
                       address |-> DefaultAddressLimit,
                       relationship |-> DefaultRelationshipLimit])

NextConcurrent ==
    \/ LoadAlone
    \/ NoCallInside /\ build_vector_store(DefaultMaxDocs)
    \/ \E c \in Callers, query \in Queries, k \in 0..MaxK :
          BeginRetrieve(c, query, k)
    \/ \E c \in Callers : SearchStep(c)
    \/ \E c \in Callers : EnhanceStep(c)
    \/ \E c \in Callers : ReturnStep(c)

SpecConcurrent == Init /\ [][NextConcurrent]_vars

\* C19: on a set index, with no load or build under way, the steps of the
\* calls inside retrieve, however interleaved, leave the graph, the loaded
\* collections and the index as they are, and a call returns what
\* retrieve(query, k) returns when it runs alone
C19_ConcurrentRetrieve ==
    [][/\ CallStep => UNCHANGED <<graph, entities, officers, addresses,
                                  relationships, document_store>>
       /\ \A c \in Callers :
             ReturnStep(c) =>
                calls'[c].result =
                   retrieve(graph, entities, officers, document_store,
                            documents, calls[c].query, calls[c].k).value
      ]_vars

\* two calls inside retrieve at once with different queries: one has
\* enhanced its documents, the other has searched and not yet enhanced
C19_Witness ==
    \E c, d \in Callers :
        /\ c # d
        /\ calls[c].pc = "return"
        /\ calls[c].enhanced_docs # <<>>
        /\ \E i \in 1..Len(calls[c].enhanced_docs) :
              "network_degree" \in DOMAIN calls[c].enhanced_docs[i].metadata
        /\ calls[d].pc = "enhance"
        /\ calls[d].vector_docs # <<>>
        /\ calls[d].query # calls[c].query

(***************************************************************************)
(* The server's statistics query (GET /stats)                              *)
(***************************************************************************)
\* d[key] raises KeyError for one of the records
KeyMissing(recs, key) == \E i \in 1..Len(recs) : key \notin DOMAIN recs[i]

\* counts[rec[key]] = counts.get(rec[key], 0) + 1 over the records
CountBy(recs, key) ==
    [v \in { recs[i][key] : i \in 1..Len(recs) } |->
        Cardinality({ i \in 1..Len(recs) : recs[i][key] = v })]

\* get_stats(): whether it raised, and the statistics it returned
get_stats(g, ents, offs) ==
    LET raises ==
            \/ KeyMissing(ents, "entity_type")
            \/ KeyMissing(ents, "jurisdiction")
            \/ KeyMissing(ents, "source")
            \/ KeyMissing(offs, "country")
            \/ KeyMissing(offs, "role")
    IN IF raises
       THEN [raised |-> TRUE, value |-> <<>>]
       ELSE [raised |-> FALSE,
             value |->
                [entities |-> [total |-> Len(ents),
                               by_type |-> CountBy(ents, "entity_type"),
                               by_jurisdiction |-> CountBy(ents, "jurisdiction"),
                               by_source |-> CountBy(ents, "source")],
                 officers |-> [total |-> Len(offs),
                               by_country |-> CountBy(offs, "country"),
                               by_role |-> CountBy(offs, "role")],
                 relationships |-> [total |-> number_of_edges(g)],
                 graph |-> [nodes |-> number_of_nodes(g),
                            edges |-> number_of_edges(g)]]]

Stats ==
    LET out == get_stats(graph, entities, officers)
    IN /\ ret' = Returned("get_stats", 0, FALSE, out.raised, out.value)
       /\ UNCHANGED <<entities, officers, addresses, relationships, graph,
                      document_store, documents, loads, rerun, calls>>

NextStats == LoadFiles \/ Stats

SpecStats == Init /\ [][NextStats]_vars

\* C21: the statistics query succeeds on whatever the loader has loaded,
\* and its totals are those of the collections and of the graph
C21_StatsSucceed ==
    ret.op = "get_stats" =>
        /\ ~ret.raised
        /\ ret.value.entities.total = Len(entities)
        /\ ret.value.officers.total = Len(officers)
        /\ ret.value.graph.nodes = number_of_nodes(graph)
        /\ ret.value.graph.edges = number_of_edges(graph)

(***************************************************************************)
(* The index after a build                                                 *)
(***************************************************************************)
\* C22: after a build_vector_store call the documents that a search can
\* return are the documents that call synthesized, and no others
C22_IndexReplaced ==
    ret.op = "build_vector_store" => document_store.docs = documents

(***************************************************************************)
(* The order of retrieve's results                                         *)
(***************************************************************************)
\* C23: retrieve(query, k) on an index asks the search for 2k documents
\* and returns the first k of the documents found, in the order found:
\* result i has the content of hit i and every metadata entry of hit i
C23_ResultsFollowHits ==
    [][\A query \in Queries, k \in 0..MaxK :
          (Retrieve(query, k) /\ document_store'.built) =>
             LET searched ==
                     IF document_store.built THEN document_store
                     ELSE FromDocuments(SynthesizedDocuments(
                              graph, entities, officers, DefaultMaxDocs))
                 index == searched.docs
                 hits == similarity_search(searched, query, k * OverfetchFactor)
             IN /\ Len(hits) = Min(k * OverfetchFactor, Len(index))
                /\ Len(ret'.value) = Min(k, Len(hits))
                /\ \A i \in 1..Len(ret'.value) :
                      /\ ret'.value[i].page_content = index[hits[i]].page_content
                      /\ \A key \in DOMAIN index[hits[i]].metadata :
                            /\ key \in DOMAIN ret'.value[i].metadata
                            /\ ret'.value[i].metadata[key] =
                                  index[hits[i]].metadata[key]
      ]_vars

\* a retrieve that returned k documents, one at least enriched, of an
\* index that holds more than the 2k it asked for
C23_Witness ==
    /\ ret.op = "retrieve"
    /\ ret.k >= 1
    /\ Len(ret.value) = ret.k
    /\ Len(document_store.docs) > ret.k * OverfetchFactor
    /\ \E i \in 1..Len(ret.value) :
          "network_degree" \in DOMAIN ret.value[i].metadata

(***************************************************************************)
(* Enrichment after a reload                                               *)
(***************************************************************************)

\* the entities whose results retrieve has enriched
EnrichedResults ==
    IF ret.op = "retrieve"
    THEN { i \in 1..Len(ret.value) :
              /\ ret.value[i].metadata.type = "entity"
              /\ has_node(graph, ret.value[i].metadata.entity_id) }
    ELSE {}

\* C24: retrieve does not raise; the content of each result is the content
\* of a document of the index, whatever the graph is by now, while
\* network_degree and connected_to of an entity result are read off the
\* graph as it is at the retrieve: its edges at the entity, and the names of
\* officers and addresses that are its neighbours now
C24_EnrichmentFromCurrentGraph ==
    ret.op = "retrieve" =>
        /\ ~ret.raised
        /\ \A i \in 1..Len(ret.value) :
              \E p \in 1..Len(document_store.docs) :
                 document_store.docs[p].page_content = ret.value[i].page_content
        /\ \A i \in EnrichedResults :
              LET md == ret.value[i].metadata
                  now == neighbors(graph, md.entity_id)
              IN /\ md.network_degree =
                       Cardinality({ e \in 1..Len(graph.edges) :
                                       graph.edges[e].u = md.entity_id })
                       + Cardinality({ e \in 1..Len(graph.edges) :
                                         graph.edges[e].v = md.entity_id })
                 /\ \A j \in 1..Len(md.connected_to) :
                       \E n \in 1..Len(now) :
                          LET node == graph.nodes[now[n]]
                          IN \/ /\ node.type = "officer"
                                /\ md.connected_to[j] = <<"Officer: ", node.name>>
                             \/ /\ node.type = "address"
                                /\ md.connected_to[j] = <<"Address: ", node.countries>>

\* a retrieve on an index built before the last load: an entity result whose
\* content is not what the graph of now would give, enriched from that graph
C24_Witness ==
    /\ ~ret.built
    /\ \E i \in EnrichedResults :
          \E e \in 1..Len(entities) :
             /\ entities[e].entity_id = ret.value[i].metadata.entity_id
             /\ ret.value[i].page_content # EntityDocument(graph, entities[e]).page_content
             /\ ret.value[i].metadata.network_degree > 0
             /\ ret.value[i].metadata.connected_to # <<>>

\* C25: the network_degree of an entity result is the number of direct
\* neighbours of the entity, the distinct nodes that graph.neighbors
\* enumerates for the documents and for connected_to
C25_DegreeIsNeighbourCount ==
    \A i \in EnrichedResults :
        ret.value[i].metadata.network_degree
           = Len(neighbors(graph, ret.value[i].metadata.entity_id))

(***************************************************************************)
(* The neighbour lists of the synthesized documents                        *)
(***************************************************************************)
\* what the content says after the tag, <<>> when the tag is not in it
Piece(content, tag) ==
    IF \E i \in 1..Len(content) : content[i][1] = tag
    THEN content[CHOOSE i \in 1..Len(content) : content[i][1] = tag][2]
    ELSE <<>>

\* the neighbours of node n that have the type, in the order in which
\* graph.neighbors(n) gives them
Scanned(n, type) ==
    LET all == IF has_node(graph, n) THEN neighbors(graph, n) ELSE <<>>
        OfType(m) == graph.nodes[m].type = type
    IN SelectSeq(all, OfType)

EntityDocumentsBuilt ==
    { i \in 1..Len(documents) : documents[i].metadata.type = "entity" }

OfficerDocumentsBuilt ==
    { i \in 1..Len(documents) : documents[i].metadata.type = "officer" }

\* C26: in the documents of a build, every neighbour of an entity is an
\* officer, an address or an entity; the entity's document lists the first 5
\* officers and the first 3 addresses among its neighbours, an officer's
\* document the first 5 entities among its neighbours, in the order of the
\* graph's neighbour iteration
C26_NeighbourLists ==
    ret.built =>
        /\ \A i \in EntityDocumentsBuilt :
              LET id == documents[i].metadata.entity_id
                  content == documents[i].page_content
                  offs == Scanned(id, "officer")
                  addrs == Scanned(id, "address")
                  listedOffs == Piece(content, "Connected Officers: ")
                  listedAddrs == Piece(content, "Registered Addresses: ")
              IN /\ has_node(graph, id) =>
                       Len(offs) + Len(addrs) + Len(Scanned(id, "entity"))
                          = Len(neighbors(graph, id))
                 /\ Len(listedOffs) = Min(Len(offs), OfficerListCap)
                 /\ Len(listedAddrs) = Min(Len(addrs), AddressListCap)
                 /\ \A j \in 1..Len(listedOffs) :
                       listedOffs[j][1] = graph.nodes[offs[j]].name
                 /\ \A j \in 1..Len(listedAddrs) :
                       listedAddrs[j][1] = graph.nodes[addrs[j]].address
        /\ \A i \in OfficerDocumentsBuilt :
              LET id == documents[i].metadata.officer_id
                  ents == Scanned(id, "entity")
                  listed == Piece(documents[i].page_content, "Connected Entities: ")
              IN /\ Len(listed) = Min(Len(ents), EntityListCap)
                 /\ \A j \in 1..Len(listed) :
                       /\ listed[j][1] = graph.nodes[ents[j]].name
                       /\ listed[j][2] = graph.nodes[ents[j]].jurisdiction

\* a build with an entity that has more than 5 officers and more than 3
\* addresses among its neighbours, and an officer with more than 5 entities
C26_Witness ==
    /\ ret.built
    /\ \E i \in EntityDocumentsBuilt :
          LET id == documents[i].metadata.entity_id
          IN /\ Len(Scanned(id, "officer")) > OfficerListCap
             /\ Len(Scanned(id, "address")) > AddressListCap
             /\ Len(Scanned(id, "entity")) > 0
             /\ Len(Piece(documents[i].page_content, "Connected Officers: "))
                   = OfficerListCap
             /\ Len(Piece(documents[i].page_content, "Registered Addresses: "))
                   = AddressListCap
    /\ \E i \in OfficerDocumentsBuilt :
          /\ Len(Scanned(documents[i].metadata.officer_id, "entity")) > EntityListCap
          /\ Len(Piece(documents[i].page_content, "Connected Entities: "))
                = EntityListCap

HasPiece(content, tag) == \E i \in 1..Len(content) : content[i][1] = tag

\* the nodes of a type that an edge leaving n reaches
Reached(n, type) ==
    { graph.edges[i].v : i \in { j \in 1..Len(graph.edges) :
                                   /\ graph.edges[j].u = n
                                   /\ graph.nodes[graph.edges[j].v].type = type } }

\* C27: the sentence of an officer's document gives the number of all entity
\* neighbours of the officer, and has no number exactly when the officer has
\* no entity neighbour
C27_OfficerSentenceCount ==
    ret.built =>
        \A i \in OfficerDocumentsBuilt :
            LET content == documents[i].page_content
                total == Cardinality(Reached(documents[i].metadata.officer_id, "entity"))
            IN /\ HasPiece(content, " with connections to ") <=> total > 0
               /\ HasPiece(content, " with connections to ") =>
                     Piece(content, " with connections to ") = total

\* a build with an officer of more than 5 entities, 5 of them listed and all
\* of them counted, and an officer whose sentence has no count
C27_Witness ==
    /\ ret.built
    /\ \E i \in OfficerDocumentsBuilt :
          LET content == documents[i].page_content
          IN /\ HasPiece(content, " with connections to ")
             /\ Piece(content, " with connections to ") > EntityListCap
             /\ Len(Piece(content, "Connected Entities: ")) = EntityListCap
    /\ \E i \in OfficerDocumentsBuilt :
          ~HasPiece(documents[i].page_content, " with connections to ")

\* the relationship of the first edge inserted from u to v
FirstLabel(u, v) ==
    LET uv == { i \in 1..Len(graph.edges) :
                  graph.edges[i].u = u /\ graph.edges[i].v = v }
        first == CHOOSE i \in uv : \A j \in uv : i <= j
    IN graph.edges[first].data.relationship

Label(u, v, fallback) == IF FirstLabel(u, v) = "" THEN fallback ELSE FirstLabel(u, v)

\* C28: a listed neighbour carries the relationship of the first edge inserted
\* from the document's node to it, or the fallback of its list when that
\* relationship is empty, and a neighbour joined by parallel edges is listed
\* once
C28_NeighbourLabels ==
    ret.built =>
        /\ \A i \in EntityDocumentsBuilt :
              LET id == documents[i].metadata.entity_id
                  content == documents[i].page_content
                  offs == Scanned(id, "officer")
                  addrs == Scanned(id, "address")
                  listedOffs == Piece(content, "Connected Officers: ")
                  listedAddrs == Piece(content, "Registered Addresses: ")
              IN /\ Len(listedOffs) = Min(Cardinality(Reached(id, "officer")), OfficerListCap)
                 /\ Len(listedAddrs) = Min(Cardinality(Reached(id, "address")), AddressListCap)
                 /\ \A j \in 1..Len(listedOffs) :
                       listedOffs[j][2] = Label(id, offs[j], "connected_to")
                 /\ \A j \in 1..Len(listedAddrs) :
                       listedAddrs[j][2] = Label(id, addrs[j], "registered_address")
        /\ \A i \in OfficerDocumentsBuilt :
              LET id == documents[i].metadata.officer_id
                  ents == Scanned(id, "entity")
                  listed == Piece(documents[i].page_content, "Connected Entities: ")
              IN /\ Len(listed) = Min(Cardinality(Reached(id, "entity")), EntityListCap)
                 /\ \A j \in 1..Len(listed) :
                       listed[j][3] = Label(id, ents[j], "officer_of")

\* a build with a listed officer that two edges of different relationships
\* join: it is listed once, with the relationship of the first edge
C28_Witness ==
    /\ ret.built
    /\ \E i \in EntityDocumentsBuilt :
          LET id == documents[i].metadata.entity_id
              offs == Scanned(id, "officer")
              listed == Piece(documents[i].page_content, "Connected Officers: ")
          IN \E j \in 1..Len(listed) :
                /\ listed[j][2] = FirstLabel(id, offs[j])
                /\ \A m \in 1..Len(listed) : listed[m][1] = listed[j][1] => m = j
                /\ \E e \in 1..Len(graph.edges) :
                      /\ graph.edges[e].u = id
                      /\ graph.edges[e].v = offs[j]
                      /\ graph.edges[e].data.relationship # listed[j][2]

(***************************************************************************)
(* Loading again                                                           *)
(***************************************************************************)
\* the relationship records whose two ends are nodes of g
ValidRelationships(g, rels) ==
    { i \in 1..Len(rels) : /\ rels[i].start_node \in DOMAIN g.nodes
                           /\ rels[i].end_node \in DOMAIN g.nodes }

\* C29: a load that returns keeps every node and, in their order, every edge
\* the graph had, and appends one edge for each relationship record with
\* both ends in the graph; a load of the input whose loads alone filled the
\* graph leaves the node count as it was and brings the edge count to the
\* number of loads times the number of such records
C29_LoadKeepsGraph ==
    [][\A dir \in DataDirs, lim \in LimitArgs :
          (load_icij_data(dir, lim) /\ ~ret'.raised) =>
              LET valid == Cardinality(ValidRelationships(graph', relationships'))
              IN /\ DOMAIN graph.nodes \subseteq DOMAIN graph'.nodes
                 /\ Len(graph'.edges) = Len(graph.edges) + valid
                 /\ \A i \in 1..Len(graph.edges) : graph'.edges[i] = graph.edges[i]
                 /\ (/\ loads >= 1
                     /\ rerun.input = [dir |-> dir, lim |-> lim]
                     /\ DOMAIN graph.nodes = LoadedIds(entities', officers', addresses')
                     /\ Len(graph.edges) = loads * valid)
                    => /\ number_of_nodes(graph') = number_of_nodes(graph)
                       /\ number_of_edges(graph') = (loads + 1) * valid]_vars

\* the state after a second load of the same input: some record has an end
\* that is no node, every other record is twice an edge
C29_Witness ==
    /\ ret.op = "load_icij_data"
    /\ ~ret.raised
    /\ loads = 2
    /\ DOMAIN graph.nodes = LoadedIds(entities, officers, addresses)
    /\ LET valid == ValidRelationships(graph, relationships)
       IN /\ Cardinality(valid) > 0
          /\ Cardinality(valid) < Len(relationships)
          /\ number_of_edges(graph) = 2 * Cardinality(valid)
          /\ \A i \in 1..Cardinality(valid) :
                graph.edges[i] = graph.edges[i + Cardinality(valid)]

(***************************************************************************)
(* retrieve called by several callers at once while the index is unbuilt.  *)
(* A call goes through retrieve statement by statement; in                 *)
(* build_vector_store the document loops are one step and the statement    *)
(* self.document_store = FAISS.from_documents(...) is another, the index   *)
(* being complete before the attribute is assigned.                        *)
(***************************************************************************)
\* retrieve(query, k) entered while the index is unbuilt
LazyBeginRetrieve(c, query, k) ==
    /\ calls[c].pc = "idle"
    /\ LazyBuildNeeded(document_store)
    /\ calls' = [calls EXCEPT ![c] = [NotCalling EXCEPT !.pc = "check",
                                                       !.query = query,
                                                       !.k = k]]
    /\ UNCHANGED <<entities, officers, addresses, relationships, graph,
                   document_store, documents, ret, loads, rerun>>

\* the test of caller c finds the index unbuilt only while no other caller
\* is building it
ObservedUnbuiltByOne(c) ==
    /\ LazyBuildNeeded(document_store)
    /\ \A d \in Callers \ {c} : calls[d].pc \notin {"synthesize", "assign"}

\* what caller c finds at: if not self.document_store
ObservedUnbuilt(c) ==
    LazyBuildNeeded(document_store)

\* if not self.document_store: (the first test)
CheckStep(c) ==
    /\ calls[c].pc = "check"
    /\ calls' = [calls EXCEPT
                   ![c].pc = IF ObservedUnbuilt(c) THEN "synthesize" ELSE "recheck"]
    /\ UNCHANGED <<entities, officers, addresses, relationships, graph,
                   document_store, documents, ret, loads, rerun>>

\* build_vector_store(): the loops that fill its list documents
SynthesizeStep(c) ==
    /\ calls[c].pc = "synthesize"
    /\ calls' = [calls EXCEPT
                   ![c].pc = "assign",
                   ![c].documents =
                       SynthesizedDocuments(graph, entities, officers,
                                            DefaultMaxDocs)]
    /\ UNCHANGED <<entities, officers, addresses, relationships, graph,
                   document_store, documents, ret, loads, rerun>>

\* if documents: self.document_store = FAISS.from_documents(documents, ...)
AssignStep(c) ==
    /\ calls[c].pc = "assign"
    /\ document_store' = StoreAfterBuild(document_store, calls[c].documents)
    /\ documents' = calls[c].documents
    /\ calls' = [calls EXCEPT ![c].pc = "recheck"]
    /\ UNCHANGED <<entities, officers, addresses, relationships, graph,
                   ret, loads, rerun>>

\* if not self.document_store: return []   (the second test)
RecheckStep(c) ==
    /\ calls[c].pc = "recheck"
    /\ calls' = [calls EXCEPT
                   ![c].pc = IF CouldNotBuild(document_store)
                             THEN "idle" ELSE "search",
                   ![c].documents = <<>>,
                   ![c].result = <<>>]
    /\ UNCHANGED <<entities, officers, addresses, relationships, graph,
                   document_store, documents, ret, loads, rerun>>

NextLazy ==
    \/ LoadAlone
    \/ \E c \in Callers, query \in Queries, k \in 0..MaxK :
          LazyBeginRetrieve(c, query, k)
    \/ \E c \in Callers : CheckStep(c)
    \/ \E c \in Callers : SynthesizeStep(c)
    \/ \E c \in Callers : AssignStep(c)
    \/ \E c \in Callers : RecheckStep(c)
    \/ \E c \in Callers : SearchStep(c)
    \/ \E c \in Callers : EnhanceStep(c)
    \/ \E c \in Callers : ReturnStep(c)

SpecLazy == Init /\ [][NextLazy]_vars

\* C30: a caller whose first test finds the index unbuilt goes on to build
\* it, whatever the other callers are doing; its assignment sets the index
\* to one made of all the documents it synthesized, whether or not an index
\* was assigned before; and a call returns at most k documents, those
\* retrieve(query, k) returns when it runs alone on the unbuilt index
C30_LazyBuildRace ==
    [][\A c \in Callers :
          /\ (CheckStep(c) /\ ~document_store.built) =>
                calls'[c].pc = "synthesize"
          /\ (AssignStep(c) /\ calls[c].documents # <<>>) =>
                /\ document_store'.built
                /\ document_store'.docs = calls[c].documents
          /\ (calls[c].pc # "idle" /\ calls'[c].pc = "idle") =>
                /\ Len(calls'[c].result) <= calls[c].k
                /\ calls'[c].result =
                      retrieve(graph, entities, officers, NoStore, <<>>,
                               calls[c].query, calls[c].k).value
      ]_vars

\* two callers found the index unbuilt and both ran the build: one has
\* assigned its index, the other is about to assign its own over it
C30_Witness ==
    \E c \in Callers, d \in Callers :
        /\ c # d
        /\ document_store.built
        /\ calls[d].pc = "recheck"
        /\ calls[d].documents # <<>>
        /\ document_store.docs = calls[d].documents
        /\ calls[c].pc = "assign"
        /\ calls[c].documents # <<>>
====
